---- MODULE Spec2Model ----
(***************************************************************************)
(* The request admission-control engine of rate_limiter.py                 *)
(* (AdvancedRateLimiter and the rate_limit decorator) as a state machine.  *)
(*                                                                         *)
(* Time is counted in ticks of 1/TicksPerSecond second, so that the int()  *)
(* truncations of the source are conversions and not the identity.         *)
(* A call of is_within_limits is two steps: it reads time.time() and       *)
(* resolves the limits outside the lock (lines 197-198), then runs the     *)
(* body of `with self.lock` (lines 200-241) as one atomic step.            *)
(***************************************************************************)
EXTENDS Integers, Sequences, FiniteSets, Bags, TLC

VARIABLES
    now,              \* the wall clock, time.time(), in ticks
    clients,          \* AdvancedRateLimiter.clients: client_id -> ClientUsage
    tier_limits,      \* AdvancedRateLimiter.tier_limits
    endpoint_limits,  \* AdvancedRateLimiter.endpoint_limits
    pending,          \* bag of calls that have read the clock and wait for the lock
    last,             \* what the most recent completed call returned
    obs,              \* history: per client, what the callers have observed
    resolved,         \* the last result of a lone get_applicable_limits call
    sweeps,           \* cleanup_old_clients calls that have read the clock and wait for the lock
    identified,       \* the last results of get_client_identifier and detect_client_tier
    monitored,        \* what the last call of a monitoring handler returned
    served,           \* history: per client and route identifier, the calls admitted and rejected
    mock              \* mock_api_server: rate_limit_storage, its request threads, its history

vars == <<now, clients, tier_limits, endpoint_limits, pending, last, obs, resolved,
          sweeps, identified, monitored, served, mock>>

-----------------------------------------------------------------------------
(* Bounds of the model *)

TicksPerSecond == 2
MaxLimit == 3
MaxOptLimit == 1
MaxCalls == 4
MaxInFlight == 2
MaxHours == 1
MaxSweeps == 1
MaxStoreCalls == 2
MaxMockCalls == 3
MaxMockThreads == 2
MaxMockLimit == 2

-----------------------------------------------------------------------------
(* Python values *)

None == -1
Inf == 1000000000

\* Python truthiness of an Optional[int] / float: None and 0 are falsy.
Truthy(x) == x # None /\ x # 0

\* `a or b`
Or(a, b) == IF Truthy(a) THEN a ELSE b

Min(a, b) == IF a <= b THEN a ELSE b
Max(a, b) == IF a >= b THEN a ELSE b

Sec(s) == s * TicksPerSecond

\* int(x) of a float x given in ticks: truncation toward zero, in seconds.
int(x) == IF x >= 0 THEN x \div TicksPerSecond ELSE 0 - ((0 - x) \div TicksPerSecond)

\* str(n): the decimal text of n, kept as a tagged value (str is injective on ints).
Str(n) == <<"str", n>>

-----------------------------------------------------------------------------
(* Configuration *)

hour_window == 3600
minute_window == 60
day_window == 86400

Tiers == {"default", "authenticated", "premium", "admin"}

RateLimitRule(rph, rpm, rpd, burst, tier) ==
    [requests_per_hour |-> rph, requests_per_minute |-> rpm,
     requests_per_day |-> rpd, burst_allowance |-> burst, tier |-> tier]

\* The tier table of __init__, with the DEFAULT tier's rule given (the tests
\* lower it before they make requests).
TierTable(default_rule) ==
    [t \in Tiers |->
        CASE t = "default" -> default_rule
          [] t = "authenticated" -> RateLimitRule(1000, 50, 5000, 20, "default")
          [] t = "premium" -> RateLimitRule(5000, 200, 25000, 50, "default")
          [] t = "admin" -> RateLimitRule(10000, 500, 100000, 100, "default")]

ConstitutionalPath == "/api/v1/analysis/constitutional"
EnhancePath == "/api/v1/document/enhance"
PrecedentsPath == "/api/v1/search/precedents"
TestEndpoint == "test_endpoint"

\* The endpoint table of __init__, with the first entry's rule given.
EndpointTable(constitutional_rule) ==
    [e \in {ConstitutionalPath, EnhancePath, PrecedentsPath} |->
        CASE e = ConstitutionalPath -> constitutional_rule
          [] e = EnhancePath -> RateLimitRule(25, 3, None, 10, "default")
          [] e = PrecedentsPath -> RateLimitRule(200, 20, None, 10, "default")]

SourceConstitutionalRule == RateLimitRule(50, 5, None, 10, "default")

-----------------------------------------------------------------------------
(* ClientUsage *)

ClientUsage(t) ==
    [requests_count |-> 0, first_request_time |-> t, last_request_time |-> t,
     window_start |-> t, total_requests |-> 0, violations |-> 0]

-----------------------------------------------------------------------------
(* AdvancedRateLimiter *)

\* str.startswith
StartsWith(s, prefix) ==
    Len(s) >= Len(prefix) /\ SubSeq(s, 1, Len(prefix)) = prefix

\* dict.get(name, default) of request.headers and request.environ, which are
\* functions from the names that are present.
Get(d, name, default) == IF name \in DOMAIN d THEN d[name] ELSE default

\* hashlib.sha256(s.encode()).hexdigest()[:16], tabulated on the texts the
\* model hashes.
Sha256Hex16(s) ==
    CASE s = "" -> "e3b0c44298fc1c14"
      [] s = "k1" -> "6ab9f1eb8f7d3388"
      [] s = "k2" -> "015f7e6bc5aeaf48"
      [] s = "10.0.0.1:TestAgent/1.0" -> "0514ce1dd7a9e753"
      [] s = "10.0.0.1:unknown" -> "741e17a4eca8eb0f"
      [] s = "192.168.1.1:TestAgent/1.0" -> "972f2cdc706ec32b"
      [] s = "192.168.1.1:unknown" -> "0ea4f9d3a211769d"
      [] s = "unknown:TestAgent/1.0" -> "c228734b620a06de"
      [] s = "unknown:unknown" -> "e771e26e1ef56f0a"

\* The fallback of get_client_identifier, lines 129-136.
AnonymousIdentifier(req) ==
    LET ip_address == Get(req.environ, "HTTP_X_FORWARDED_FOR",
                          Get(req.environ, "REMOTE_ADDR", "unknown"))
        user_agent == Get(req.headers, "User-Agent", "unknown")
        composite == ip_address \o ":" \o user_agent
    IN  "anon:" \o Sha256Hex16(composite)

\* Mutant: the X-API-Key header is looked at before the Authorization header.
ClientIdentifierKeyFirst(req) ==
    LET auth_header == Get(req.headers, "Authorization", "")
    IN  IF "X-API-Key" \in DOMAIN req.headers /\ req.headers["X-API-Key"] # ""
        THEN "api:" \o Sha256Hex16(req.headers["X-API-Key"])
        ELSE IF StartsWith(auth_header, "Bearer ")
        THEN "api:" \o Sha256Hex16(SubSeq(auth_header, 8, Len(auth_header)))
        ELSE AnonymousIdentifier(req)

get_client_identifier(req) ==
    LET auth_header == Get(req.headers, "Authorization", "")
    IN  IF StartsWith(auth_header, "Bearer ")
        THEN "api:" \o Sha256Hex16(SubSeq(auth_header, 8, Len(auth_header)))
        ELSE IF "X-API-Key" \in DOMAIN req.headers /\ req.headers["X-API-Key"] # ""
        THEN "api:" \o Sha256Hex16(req.headers["X-API-Key"])
        ELSE AnonymousIdentifier(req)

_is_admin_key(client_id) == FALSE

_is_premium_key(client_id) == FALSE

\* Mutant: the final else of the api: branch is missing, so a key that is
\* neither admin nor premium falls through to the default tier.
DetectClientTierFallThrough(client_id) ==
    IF StartsWith(client_id, "api:") /\ _is_admin_key(client_id) THEN "admin"
    ELSE IF StartsWith(client_id, "api:") /\ _is_premium_key(client_id) THEN "premium"
    ELSE "default"

detect_client_tier(client_id) ==
    IF StartsWith(client_id, "api:")
    THEN IF _is_admin_key(client_id) THEN "admin"
         ELSE IF _is_premium_key(client_id) THEN "premium"
         ELSE "authenticated"
    ELSE "default"

\* Mutant: the endpoint's rule replaces the tier's instead of tightening it.
ApplicableLimitsOverride(client_tier, endpoint) ==
    IF endpoint \in DOMAIN endpoint_limits
    THEN [endpoint_limits[endpoint] EXCEPT !.tier = client_tier]
    ELSE tier_limits[client_tier]

get_applicable_limits(client_tier, endpoint) ==
    LET base_limits == tier_limits[client_tier] IN
    IF endpoint \in DOMAIN endpoint_limits
    THEN LET ep == endpoint_limits[endpoint] IN
         RateLimitRule(
            Min(base_limits.requests_per_hour, ep.requests_per_hour),
            Min(Or(base_limits.requests_per_minute, Inf), Or(ep.requests_per_minute, Inf)),
            Min(Or(base_limits.requests_per_day, Inf), Or(ep.requests_per_day, Inf)),
            Min(base_limits.burst_allowance, ep.burst_allowance),
            client_tier)
    ELSE base_limits

_count_requests_in_window(usage, window_size, current_time) ==
    IF current_time - usage.first_request_time < Sec(window_size)
    THEN usage.requests_count
    ELSE 0

\* Mutant: the retry time without its floor of one second.
RateLimitInfoNoFloor(limits, usage, current_time) ==
    LET window_remaining == Sec(3600) - (current_time - usage.window_start)
        reset_time == usage.window_start + Sec(3600)
    IN  [limit |-> limits.requests_per_hour,
         remaining |-> Max(0, limits.requests_per_hour - usage.requests_count),
         reset |-> int(reset_time),
         window |-> 3600,
         policy |-> <<limits.requests_per_hour, " per hour">>,
         retry_after |-> IF usage.requests_count >= limits.requests_per_hour
                         THEN int(window_remaining)
                         ELSE None]

_get_rate_limit_info(limits, usage, current_time) ==
    LET window_remaining == Sec(3600) - (current_time - usage.window_start)
        reset_time == usage.window_start + Sec(3600)
    IN  [limit |-> limits.requests_per_hour,
         remaining |-> Max(0, limits.requests_per_hour - usage.requests_count),
         reset |-> int(reset_time),
         window |-> 3600,
         policy |-> <<limits.requests_per_hour, " per hour">>,
         retry_after |-> IF usage.requests_count >= limits.requests_per_hour
                         THEN Max(1, int(window_remaining))
                         ELSE None]

\* Mutant: the hourly reset clears the whole record, lifetime counters included.
CleanUpOldWindowWholeRecord(usage, current_time) ==
    IF current_time - usage.window_start > Sec(hour_window)
    THEN [usage EXCEPT !.requests_count = 0, !.window_start = current_time,
                       !.total_requests = 0, !.violations = 0]
    ELSE usage

\* Lines 212-215: "Clean up old windows".
CleanUpOldWindow(usage, current_time) ==
    IF current_time - usage.window_start > Sec(hour_window)
    THEN [usage EXCEPT !.requests_count = 0, !.window_start = current_time]
    ELSE usage

\* Mutant: the hourly comparison off by one.
HourlyLimitHitStrict(limits, usage) ==
    usage.requests_count > limits.requests_per_hour

\* Mutant: the burst allowance relaxes the hourly limit.
HourlyLimitHitWithBurst(limits, usage) ==
    usage.requests_count >= limits.requests_per_hour + limits.burst_allowance

HourlyLimitHit(limits, usage) ==
    usage.requests_count >= limits.requests_per_hour

MinuteLimitHit(limits, usage, current_time) ==
    /\ Truthy(limits.requests_per_minute)
    /\ _count_requests_in_window(usage, minute_window, current_time)
          >= limits.requests_per_minute

DayLimitHit(limits, usage, current_time) ==
    /\ Truthy(limits.requests_per_day)
    /\ _count_requests_in_window(usage, day_window, current_time)
          >= limits.requests_per_day

\* Lines 217-234: which check rejects, in the order of the code; "none" admits.
RejectedBy(limits, usage, current_time) ==
    IF HourlyLimitHit(limits, usage) THEN "hour"
    ELSE IF MinuteLimitHit(limits, usage, current_time) THEN "minute"
    ELSE IF DayLimitHit(limits, usage, current_time) THEN "day"
    ELSE "none"

\* Mutant: a rejected call is recorded as the client's last request too.
IsWithinLimitsTouchOnReject(cl, client_id, limits, current_time, clock) ==
    LET created == IF client_id \in DOMAIN cl THEN cl[client_id] ELSE ClientUsage(clock)
        usage == CleanUpOldWindow(created, current_time)
        cause == RejectedBy(limits, usage, current_time)
        after == IF cause = "none"
                 THEN [usage EXCEPT !.requests_count = @ + 1,
                                    !.total_requests = @ + 1,
                                    !.last_request_time = current_time]
                 ELSE [usage EXCEPT !.violations = @ + 1,
                                    !.last_request_time = current_time]
    IN  [usage |-> after,
         is_allowed |-> (cause = "none"),
         rate_info |-> _get_rate_limit_info(limits, after, current_time)]

\* The body of `with self.lock` (lines 200-241) for one call: the record after
\* the call and the returned (is_allowed, rate_limit_info). A new record's
\* three timestamps are time.time() at its creation, not the call's current_time.
is_within_limits(cl, client_id, limits, current_time, clock) ==
    LET created == IF client_id \in DOMAIN cl THEN cl[client_id] ELSE ClientUsage(clock)
        usage == CleanUpOldWindow(created, current_time)
        cause == RejectedBy(limits, usage, current_time)
        after == IF cause = "none"
                 THEN [usage EXCEPT !.requests_count = @ + 1,
                                    !.total_requests = @ + 1,
                                    !.last_request_time = current_time]
                 ELSE [usage EXCEPT !.violations = @ + 1]
    IN  [usage |-> after,
         is_allowed |-> (cause = "none"),
         rate_info |-> _get_rate_limit_info(limits, after, current_time)]

\* Mutant: a record idle for exactly max_age is removed too.
CleanupOldClientsInclusive(cl, current_time, max_age) ==
    LET old_clients == {client_id \in DOMAIN cl :
                           current_time - cl[client_id].last_request_time >= Sec(max_age)}
    IN  [client_id \in DOMAIN cl \ old_clients |-> cl[client_id]]

\* The body of `with self.lock` of cleanup_old_clients (lines 285-292): the
\* store after the sweep.
cleanup_old_clients(cl, current_time, max_age) ==
    LET old_clients == {client_id \in DOMAIN cl :
                           current_time - cl[client_id].last_request_time > Sec(max_age)}
    IN  [client_id \in DOMAIN cl \ old_clients |-> cl[client_id]]

RECURSIVE Sum(_, _)
\* sum(f[x] for x in S)
Sum(f, S) ==
    IF S = {} THEN 0
    ELSE LET x == CHOOSE y \in S : TRUE IN f[x] + Sum(f, S \ {x})

active_window == 300

\* Mutant: the totals are taken from the window counts.
GetStatsWindowCounts(cl, clock) ==
    LET total_requests == Sum([c \in DOMAIN cl |-> cl[c].requests_count], DOMAIN cl)
        total_violations == Sum([c \in DOMAIN cl |-> cl[c].violations], DOMAIN cl)
    IN  [total_clients |-> Cardinality(DOMAIN cl),
         total_requests |-> total_requests,
         total_violations |-> total_violations,
         violation_rate |-> <<total_violations, Max(1, total_requests)>>,
         active_clients |-> Cardinality({c \in DOMAIN cl :
                               clock - cl[c].last_request_time < Sec(active_window)})]

\* The body of `with self.lock` of get_stats (lines 268-280); violation_rate is
\* kept as the pair numerator, denominator.
get_stats(cl, clock) ==
    LET total_requests == Sum([c \in DOMAIN cl |-> cl[c].total_requests], DOMAIN cl)
        total_violations == Sum([c \in DOMAIN cl |-> cl[c].violations], DOMAIN cl)
    IN  [total_clients |-> Cardinality(DOMAIN cl),
         total_requests |-> total_requests,
         total_violations |-> total_violations,
         violation_rate |-> <<total_violations, Max(1, total_requests)>>,
         active_clients |-> Cardinality({c \in DOMAIN cl :
                               clock - cl[c].last_request_time < Sec(active_window)})]

\* The data get_my_usage reports for a record, and for no record.
UsageData(client_tier, usage) ==
    [client_tier |-> client_tier, requests_made |-> usage.requests_count,
     total_requests |-> usage.total_requests, violations |-> usage.violations,
     first_request |-> usage.first_request_time, last_request |-> usage.last_request_time]

NoUsageData(client_tier) ==
    [client_tier |-> client_tier, requests_made |-> 0, total_requests |-> 0, violations |-> 0]

\* Mutant: the record is looked up as in a defaultdict, which creates it.
GetMyUsageSetDefault(cl, client_id) ==
    LET store == [c \in DOMAIN cl \cup {client_id} |->
                     IF c \in DOMAIN cl THEN cl[c] ELSE ClientUsage(0)]
    IN  [clients |-> store,
         data |-> UsageData(detect_client_tier(client_id), store[client_id])]

\* The body of get_my_usage (lines 391-418): the store after it and the data
\* of its response.
get_my_usage(cl, client_id) ==
    LET client_tier == detect_client_tier(client_id)
    IN  [clients |-> cl,
         data |-> IF client_id \in DOMAIN cl
                  THEN UsageData(client_tier, cl[client_id])
                  ELSE NoUsageData(client_tier)]

-----------------------------------------------------------------------------
(* rate_limit.decorated_function, lines 317-364 *)

RateLimitHeaders == {"X-RateLimit-Limit", "X-RateLimit-Remaining", "X-RateLimit-Reset",
                     "X-RateLimit-Window", "X-RateLimit-Policy"}

HeaderValue(h, info) ==
    CASE h = "X-RateLimit-Limit" -> Str(info.limit)
      [] h = "X-RateLimit-Remaining" -> Str(info.remaining)
      [] h = "X-RateLimit-Reset" -> Str(info.reset)
      [] h = "X-RateLimit-Window" -> Str(info.window)
      [] h = "X-RateLimit-Policy" -> info.policy
      [] h = "Retry-After" -> Str(info.retry_after)

\* What the wrapped handler returns: a Flask Response, a dict or a tuple.
ReturnKinds == {"Response", "dict", "tuple"}

HasHeadersAttr(kind) == kind = "Response"

\* Lines 323-333: the body of the 429 response.
RateLimitExceeded(rate_info) ==
    [code |-> "RATE_LIMIT_EXCEEDED",
     message |-> <<"Rate limit exceeded. ", rate_info.policy>>,
     details |-> [limit |-> rate_info.limit,
                  window |-> rate_info.window,
                  retry_after |-> rate_info.retry_after]]

\* Lines 338-345: the headers of the 429 response.
RejectedHeaders(rate_info) ==
    LET names == RateLimitHeaders \cup
                 (IF Truthy(rate_info.retry_after) THEN {"Retry-After"} ELSE {})
    IN  [h \in names |-> HeaderValue(h, rate_info)]

\* Mutant: the admitted path copies the Retry-After header as the 429 path does.
DecoratedRetryAfterOnSuccess(is_allowed, rate_info, kind) ==
    IF ~is_allowed
    THEN [status_code |-> 429,
          headers |-> RejectedHeaders(rate_info),
          error |-> RateLimitExceeded(rate_info),
          handler_calls |-> 0]
    ELSE [status_code |-> 200,
          headers |-> IF HasHeadersAttr(kind) THEN RejectedHeaders(rate_info) ELSE <<>>,
          error |-> None,
          handler_calls |-> 1]

\* Mutant: the wrapped handler runs before the limits are checked.
DecoratedHandlerFirst(is_allowed, rate_info, kind) ==
    IF ~is_allowed
    THEN [status_code |-> 429,
          headers |-> RejectedHeaders(rate_info),
          error |-> RateLimitExceeded(rate_info),
          handler_calls |-> 1]
    ELSE [status_code |-> 200,
          headers |-> [h \in (IF HasHeadersAttr(kind) THEN RateLimitHeaders ELSE {})
                          |-> HeaderValue(h, rate_info)],
          error |-> None,
          handler_calls |-> 1]

decorated_function(is_allowed, rate_info, kind) ==
    IF ~is_allowed
    THEN [status_code |-> 429,
          headers |-> RejectedHeaders(rate_info),
          error |-> RateLimitExceeded(rate_info),
          handler_calls |-> 0]
    ELSE LET names == IF HasHeadersAttr(kind) THEN RateLimitHeaders ELSE {}
         IN  [status_code |-> 200,
              headers |-> [h \in names |-> HeaderValue(h, rate_info)],
              error |-> None,
              handler_calls |-> 1]

-----------------------------------------------------------------------------
(* Observers: what a caller instrumenting the limiter records. The minute   *)
(* and day windows are the fixed windows of the specification: started at   *)
(* the first call, restarted by the first call made a full duration later.  *)

NoObs ==
    [admitted |-> 0, rejected |-> 0, one_hour |-> TRUE, first |-> None,
     minute_start |-> None, minute_count |-> 0, day_start |-> None, day_count |-> 0]

FixedWindow(start, count, duration, t, allowed) ==
    LET fresh == start = None \/ t - start >= Sec(duration)
        s == IF fresh THEN t ELSE start
        c == IF fresh THEN 0 ELSE count
    IN  <<s, IF allowed THEN c + 1 ELSE c>>

\* The calls of a client on a route identifier, admitted and rejected.
ServedOf(sv, client_id, endpoint) ==
    IF <<client_id, endpoint>> \in DOMAIN sv THEN sv[<<client_id, endpoint>>]
    ELSE [admitted |-> 0, rejected |-> 0]

Serve(sv, client_id, endpoint, allowed) ==
    LET was == ServedOf(sv, client_id, endpoint)
        is == IF allowed THEN [was EXCEPT !.admitted = @ + 1]
              ELSE [was EXCEPT !.rejected = @ + 1]
    IN  [k \in DOMAIN sv \cup {<<client_id, endpoint>>} |->
            IF k = <<client_id, endpoint>> THEN is ELSE sv[k]]

Observe(o, t, allowed) ==
    LET first == IF o.first = None THEN t ELSE o.first
        m == FixedWindow(o.minute_start, o.minute_count, minute_window, t, allowed)
        d == FixedWindow(o.day_start, o.day_count, day_window, t, allowed)
    IN  [admitted |-> IF allowed THEN o.admitted + 1 ELSE o.admitted,
         rejected |-> IF allowed THEN o.rejected ELSE o.rejected + 1,
         one_hour |-> o.one_hour /\ t - first < Sec(hour_window),
         first |-> first,
         minute_start |-> m[1], minute_count |-> m[2],
         day_start |-> d[1], day_count |-> d[2]]

-----------------------------------------------------------------------------
(* The state machine *)

ClientIds == {"anon:c1"}
Endpoints == {TestEndpoint, ConstitutionalPath}

\* The instants at which the clock is read: the start, half a second later, and
\* the end of the minute, just before, on and just past the end of the hours, and
\* the end of the day.
Instants ==
    {0, 1, Sec(minute_window), Sec(hour_window) - 1, Sec(hour_window), Sec(day_window)}
    \cup {k * Sec(hour_window) + k : k \in 1..MaxHours}

OptLimits == {None} \cup (1..MaxOptLimit)

NoCall == [client_id |-> "", is_allowed |-> FALSE]
NoResolved == [client_tier |-> "", endpoint |-> ""]
NoMonitored == [waiting |-> {}, handler |-> "none"]
NoMock == [storage |-> <<>>, threads |-> {}, log |-> <<>>]
NoRequest == [headers |-> <<>>, environ |-> <<>>]
NoIdentified ==
    [stage |-> "none", direct |-> FALSE, r1 |-> NoRequest, r2 |-> NoRequest,
     id1 |-> "", id2 |-> "", tier1 |-> "", tier2 |-> ""]

Init ==
    /\ now = 0
    /\ clients = <<>>
    /\ \E rph \in 1..MaxLimit, rpm \in OptLimits, rpd \in OptLimits :
          tier_limits = TierTable(RateLimitRule(rph, rpm, rpd, 10, "default"))
    /\ endpoint_limits = EndpointTable(SourceConstitutionalRule)
    /\ pending = EmptyBag
    /\ last = NoCall
    /\ obs = [c \in ClientIds |-> NoObs]
    /\ resolved = NoResolved
    /\ sweeps = {}
    /\ monitored = NoMonitored
    /\ served = <<>>
    /\ mock = NoMock
    /\ identified = NoIdentified

CallsOf(c) ==
    (IF c \in DOMAIN clients THEN clients[c].total_requests + clients[c].violations ELSE 0)
    + BagCardinality([p \in {q \in DOMAIN pending : q.client_id = c} |-> pending[p]])

\* decorated_function lines 308-310 and is_within_limits lines 197-198.
Enter(c, e) ==
    /\ BagCardinality(pending) < MaxInFlight
    /\ CallsOf(c) < MaxCalls
    /\ LET tier == detect_client_tier(c)
           p == [client_id |-> c, client_tier |-> tier, endpoint |-> e,
                 current_time |-> now, limits |-> get_applicable_limits(tier, e)]
       IN  pending' = pending (+) SetToBag({p})
    /\ UNCHANGED <<now, clients, tier_limits, endpoint_limits, last, obs, resolved, sweeps, identified,
                   monitored, served, mock>>

\* is_within_limits lines 200-241 under the lock, then decorated_function 317-364:
\* what a call changes.
LockedEffect(p, kind) ==
    /\ BagIn(p, pending)
    /\ LET r == is_within_limits(clients, p.client_id, p.limits, p.current_time, now)
       IN  /\ clients' = [c \in DOMAIN clients \cup {p.client_id} |->
                            IF c = p.client_id THEN r.usage ELSE clients[c]]
           /\ last' = [client_id |-> p.client_id,
                       client_tier |-> p.client_tier,
                       endpoint |-> p.endpoint,
                       current_time |-> p.current_time,
                       limits |-> p.limits,
                       is_allowed |-> r.is_allowed,
                       rate_info |-> r.rate_info,
                       response |-> decorated_function(r.is_allowed, r.rate_info, kind)]
           /\ obs' = [obs EXCEPT ![p.client_id] = Observe(@, p.current_time, r.is_allowed)]
           /\ served' = Serve(served, p.client_id, p.endpoint, r.is_allowed)
    /\ pending' = pending (-) SetToBag({p})
    /\ UNCHANGED <<now, tier_limits, endpoint_limits, resolved, sweeps, identified, mock>>

Locked(p, kind) ==
    /\ LockedEffect(p, kind)
    /\ UNCHANGED monitored

Tick ==
    /\ \E t \in Instants : t > now /\ now' = t
    /\ UNCHANGED <<clients, tier_limits, endpoint_limits, pending, last, obs, resolved, sweeps, identified,
                   monitored, served, mock>>

\* A caller that serialises its calls: one call at a time.
EnterSerial(c, e) ==
    /\ pending = EmptyBag
    /\ Enter(c, e)

Next ==
    \/ \E c \in ClientIds : EnterSerial(c, TestEndpoint)
    \/ \E p \in DOMAIN pending, kind \in ReturnKinds : Locked(p, kind)
    \/ Tick

Spec == Init /\ [][Next]_vars

\* Concurrent request threads: up to MaxInFlight calls of one client have read
\* the clock and wait for the lock, within and around the first hour. The
\* minute and day limits are absent or equal to the hourly limit, and the
\* client makes at most two calls more than the hourly limit admits.
InitConc ==
    /\ now = 0
    /\ clients = <<>>
    /\ \E rph \in 1..MaxLimit :
          \E rpm \in {None, rph}, rpd \in {None, rph} :
             tier_limits = TierTable(RateLimitRule(rph, rpm, rpd, 10, "default"))
    /\ endpoint_limits = EndpointTable(SourceConstitutionalRule)
    /\ pending = EmptyBag
    /\ last = NoCall
    /\ obs = [c \in ClientIds |-> NoObs]
    /\ resolved = NoResolved
    /\ sweeps = {}
    /\ monitored = NoMonitored
    /\ served = <<>>
    /\ mock = NoMock
    /\ identified = NoIdentified

EnterConc(c, e) ==
    /\ CallsOf(c) < tier_limits[detect_client_tier(c)].requests_per_hour + 2
    /\ Enter(c, e)

ConcInstants == {0, 1, Sec(hour_window) - 1, Sec(hour_window), Sec(hour_window) + 1}

TickConc ==
    /\ \E t \in ConcInstants : t > now /\ now' = t
    /\ UNCHANGED <<clients, tier_limits, endpoint_limits, pending, last, obs, resolved, sweeps, identified,
                   monitored, served, mock>>

NextConc ==
    \/ \E c \in ClientIds : EnterConc(c, TestEndpoint)
    \/ \E p \in DOMAIN pending : Locked(p, "Response")
    \/ TickConc

SpecConc == InitConc /\ [][NextConc]_vars

-----------------------------------------------------------------------------
(* get_applicable_limits on its own: the tables are drawn from bounded sets *)
(* and the resolver is applied to every tier and route.                     *)

PolicyValues == 1..MaxLimit
OptPolicyValues == {None} \cup PolicyValues

InitPolicy ==
    /\ now = 0
    /\ clients = <<>>
    /\ \E rph \in PolicyValues, rpm \in OptPolicyValues, rpd \in OptPolicyValues,
          burst \in {10, 20} :
          tier_limits = TierTable(RateLimitRule(rph, rpm, rpd, burst, "default"))
    /\ \E rph \in PolicyValues, rpm \in OptPolicyValues, rpd \in OptPolicyValues :
          endpoint_limits = EndpointTable(RateLimitRule(rph, rpm, rpd, 10, "default"))
    /\ pending = EmptyBag
    /\ last = NoCall
    /\ obs = [c \in ClientIds |-> NoObs]
    /\ resolved = NoResolved
    /\ sweeps = {}
    /\ monitored = NoMonitored
    /\ served = <<>>
    /\ mock = NoMock
    /\ identified = NoIdentified

Resolve(tier, route) ==
    /\ resolved' = [client_tier |-> tier, endpoint |-> route,
                    limits |-> get_applicable_limits(tier, route)]
    /\ UNCHANGED <<now, clients, tier_limits, endpoint_limits, pending, last, obs,
                   sweeps, identified,
                   monitored, served, mock>>

NextPolicy == \E tier \in Tiers, route \in Endpoints \cup {EnhancePath} : Resolve(tier, route)

SpecPolicy == InitPolicy /\ [][NextPolicy]_vars

-----------------------------------------------------------------------------
(* get_client_identifier and detect_client_tier on their own: two requests   *)
(* are drawn, identified and classified; so are the identifiers the tests    *)
(* hand to detect_client_tier directly.                                      *)

\* An optional value is the empty set or a singleton.
Optional(values) == {{}} \cup {{v} : v \in values}

AuthorizationValues == {"Bearer k1", "Bearer k2", "Bearer ", "Bearer", "Basic k1"}
ApiKeyValues == {"", "k1", "k2"}
UserAgentValues == {"TestAgent/1.0"}
ForwardedForValues == {"10.0.0.1"}
RemoteAddrValues == {"192.168.1.1"}

\* A mapping of the names whose optional value is present.
Present(opts) ==
    [n \in {m \in DOMAIN opts : opts[m] # {}} |-> CHOOSE v \in opts[n] : TRUE]

Requests ==
    {[headers |-> Present(("Authorization" :> a) @@ ("X-API-Key" :> k) @@ ("User-Agent" :> u)),
      environ |-> Present(("HTTP_X_FORWARDED_FOR" :> f) @@ ("REMOTE_ADDR" :> r))] :
        a \in Optional(AuthorizationValues), k \in Optional(ApiKeyValues),
        u \in Optional(UserAgentValues), f \in Optional(ForwardedForValues),
        r \in Optional(RemoteAddrValues)}

DirectClientIds == {"api:1234567890abcdef", "anon:1234567890abcdef", "old-client-0"}

InitIdentify ==
    /\ now = 0
    /\ clients = <<>>
    /\ tier_limits = TierTable(RateLimitRule(100, 10, 500, 10, "default"))
    /\ endpoint_limits = EndpointTable(SourceConstitutionalRule)
    /\ pending = EmptyBag
    /\ last = NoCall
    /\ obs = [c \in ClientIds |-> NoObs]
    /\ resolved = NoResolved
    /\ sweeps = {}
    /\ monitored = NoMonitored
    /\ served = <<>>
    /\ mock = NoMock
    /\ \/ \E r1 \in Requests, r2 \in Requests :
             identified = [NoIdentified EXCEPT !.stage = "request", !.r1 = r1, !.r2 = r2]
       \/ \E c1 \in DirectClientIds, c2 \in DirectClientIds :
             identified = [NoIdentified EXCEPT !.stage = "identified", !.direct = TRUE,
                                              !.id1 = c1, !.id2 = c2]

\* decorated_function line 308, for each of the two requests.
Identify ==
    /\ identified.stage = "request"
    /\ identified' = [identified EXCEPT !.stage = "identified",
                                        !.id1 = get_client_identifier(identified.r1),
                                        !.id2 = get_client_identifier(identified.r2)]
    /\ UNCHANGED <<now, clients, tier_limits, endpoint_limits, pending, last, obs,
                   resolved, sweeps,
                   monitored, served, mock>>

\* decorated_function line 309, for each of the two identifiers.
Classify ==
    /\ identified.stage = "identified"
    /\ identified' = [identified EXCEPT !.stage = "classified",
                                        !.tier1 = detect_client_tier(identified.id1),
                                        !.tier2 = detect_client_tier(identified.id2)]
    /\ UNCHANGED <<now, clients, tier_limits, endpoint_limits, pending, last, obs,
                   resolved, sweeps,
                   monitored, served, mock>>

NextIdentify == Identify \/ Classify

SpecIdentify == InitIdentify /\ [][NextIdentify]_vars

-----------------------------------------------------------------------------
(* The store shared by the request threads of two clients and the reaper:   *)
(* calls and sweeps read the clock, then wait for the lock.                 *)

StoreClientIds == {"anon:c1", "anon:c2"}

\* The idle thresholds the reaper is called with: an hour, and the default day.
MaxAges == {hour_window, day_window}

StoreInstants == {0, 1, Sec(hour_window) + 1, Sec(day_window) + 1}

InitStore ==
    /\ now = 0
    /\ clients = <<>>
    /\ \E rph \in 1..MaxStoreCalls, rpm \in OptLimits :
          tier_limits = TierTable(RateLimitRule(rph, rpm, None, 10, "default"))
    /\ endpoint_limits = EndpointTable(SourceConstitutionalRule)
    /\ pending = EmptyBag
    /\ last = NoCall
    /\ obs = [c \in StoreClientIds |-> NoObs]
    /\ resolved = NoResolved
    /\ sweeps = {}
    /\ monitored = NoMonitored
    /\ served = <<>>
    /\ mock = NoMock
    /\ identified = NoIdentified

\* The callers serialise their calls; the first client makes MaxStoreCalls
\* calls in all, every other client one.
EnterStore(c, e) ==
    /\ pending = EmptyBag
    /\ obs[c].admitted + obs[c].rejected < (IF c = "anon:c1" THEN MaxStoreCalls ELSE 1)
    /\ Enter(c, e)

\* cleanup_old_clients line 284: the clock is read before the lock is taken.
SweepEnter(max_age) ==
    /\ Cardinality(sweeps) < MaxSweeps
    /\ sweeps' = sweeps \cup {[current_time |-> now, max_age |-> max_age]}
    /\ UNCHANGED <<now, clients, tier_limits, endpoint_limits, pending, last, obs,
                   resolved, identified,
                   monitored, served, mock>>

\* cleanup_old_clients lines 285-294, under the lock.
SweepLocked(s) ==
    /\ s \in sweeps
    /\ clients' = cleanup_old_clients(clients, s.current_time, s.max_age)
    /\ sweeps' = sweeps \ {s}
    /\ UNCHANGED <<now, tier_limits, endpoint_limits, pending, last, obs,
                   resolved, identified,
                   monitored, served, mock>>

TickStore ==
    /\ \E t \in StoreInstants : t > now /\ now' = t
    /\ UNCHANGED <<clients, tier_limits, endpoint_limits, pending, last, obs, resolved,
                   sweeps, identified,
                   monitored, served, mock>>

NextStore ==
    \/ \E c \in StoreClientIds : EnterStore(c, TestEndpoint)
    \/ \E p \in DOMAIN pending : Locked(p, "Response")
    \/ \E max_age \in MaxAges : SweepEnter(max_age)
    \/ \E s \in sweeps : SweepLocked(s)
    \/ TickStore

SpecStore == InitStore /\ [][NextStore]_vars

\* The store as the program schedules it: the clock advances, a request thread
\* and a sweep that wait for the lock get it. No thread, timer or hook of the
\* program calls cleanup_old_clients, so a sweep is never bound to start.
SpecScheduled ==
    /\ InitStore
    /\ [][NextStore]_vars
    /\ WF_vars(TickStore)
    /\ WF_vars(\E p \in DOMAIN pending : Locked(p, "Response"))
    /\ WF_vars(\E s \in sweeps : SweepLocked(s))

-----------------------------------------------------------------------------
(* The monitoring handlers beside the request threads and the reaper: a     *)
(* my-usage request passes the decorator, then its body takes the lock on   *)
(* its own; get_stats takes the lock once.                                  *)

MyUsageEndpoint == "get_my_usage"

\* The first client asks for its usage, every other client calls the test route.
RouteOf(c) == IF c = "anon:c1" THEN MyUsageEndpoint ELSE TestEndpoint

MonitorInstants == {0, Sec(active_window), Sec(hour_window) + 1}

InitMonitor ==
    /\ now = 0
    /\ clients = <<>>
    /\ \E rph \in 1..MaxStoreCalls :
          tier_limits = TierTable(RateLimitRule(rph, None, None, 10, "default"))
    /\ endpoint_limits = EndpointTable(SourceConstitutionalRule)
    /\ pending = EmptyBag
    /\ last = NoCall
    /\ obs = [c \in StoreClientIds |-> NoObs]
    /\ resolved = NoResolved
    /\ sweeps = {}
    /\ monitored = NoMonitored
    /\ served = <<>>
    /\ mock = NoMock
    /\ identified = NoIdentified

\* decorated_function for one request; an admitted my-usage request goes on
\* to the handler body (line 350).
MonitorLocked(p) ==
    /\ LockedEffect(p, "Response")
    /\ monitored' = IF p.endpoint = MyUsageEndpoint /\ last'.is_allowed
                    THEN [monitored EXCEPT !.waiting = @ \cup {p.client_id}]
                    ELSE monitored

\* get_my_usage lines 391-418.
GetMyUsage(c) ==
    /\ c \in monitored.waiting
    /\ LET r == get_my_usage(clients, c)
       IN  /\ clients' = r.clients
           /\ monitored' = [waiting |-> monitored.waiting \ {c},
                            handler |-> MyUsageEndpoint, client_id |-> c, data |-> r.data]
    /\ UNCHANGED <<now, tier_limits, endpoint_limits, pending, last, obs, resolved,
                   sweeps, identified, served, mock>>

\* get_stats lines 266-280.
GetStats ==
    /\ monitored' = [waiting |-> monitored.waiting,
                     handler |-> "get_stats", client_id |-> "", data |-> get_stats(clients, now)]
    /\ UNCHANGED <<now, clients, tier_limits, endpoint_limits, pending, last, obs,
                   resolved, sweeps, identified, served, mock>>

TickMonitor ==
    /\ \E t \in MonitorInstants : t > now /\ now' = t
    /\ UNCHANGED <<clients, tier_limits, endpoint_limits, pending, last, obs, resolved,
                   sweeps, identified, monitored, served, mock>>

NextMonitor ==
    \/ \E c \in StoreClientIds : EnterStore(c, RouteOf(c))
    \/ \E p \in DOMAIN pending : MonitorLocked(p)
    \/ \E c \in StoreClientIds : GetMyUsage(c)
    \/ GetStats
    \/ SweepEnter(hour_window)
    \/ \E s \in sweeps : SweepLocked(s)
    \/ TickMonitor

SpecMonitor == InitMonitor /\ [][NextMonitor]_vars

-----------------------------------------------------------------------------
(* Requests on the routes the tests wrap with rate_limit. Flask's           *)
(* request.endpoint is the name of the view function the route was          *)
(* registered with, and the decorator keeps that name (functools.wraps).    *)

TestPath == "/test/endpoint"

Routes ==
    (TestPath :> TestEndpoint)
    @@ (ConstitutionalPath :> "constitutional_analysis")
    @@ (EnhancePath :> "document_enhance")

\* decorated_function line 310: request.endpoint or request.path.
route_identifier(path) ==
    LET endpoint == Routes[path]
    IN  IF endpoint # "" THEN endpoint ELSE path

RouteInstants == {0, 1, Sec(hour_window) + 1}

\* The tier has an hourly limit only, of two or more; the override of the
\* constitutional route has an hourly limit only.
InitRoutes ==
    /\ now = 0
    /\ clients = <<>>
    /\ \E rph \in 2..MaxLimit :
          tier_limits = TierTable(RateLimitRule(rph, None, None, 10, "default"))
    /\ \E rph \in 1..MaxLimit :
          endpoint_limits = EndpointTable(RateLimitRule(rph, None, None, 10, "default"))
    /\ pending = EmptyBag
    /\ last = NoCall
    /\ obs = [c \in ClientIds |-> NoObs]
    /\ resolved = NoResolved
    /\ sweeps = {}
    /\ monitored = NoMonitored
    /\ served = <<>>
    /\ mock = NoMock
    /\ identified = NoIdentified

\* A request on a path reaches the decorator of its route.
EnterRoute(c, path) == EnterSerial(c, route_identifier(path))

TickRoutes ==
    /\ \E t \in RouteInstants : t > now /\ now' = t
    /\ UNCHANGED <<clients, tier_limits, endpoint_limits, pending, last, obs, resolved,
                   sweeps, identified, monitored, served, mock>>

NextRoutes ==
    \/ \E c \in ClientIds, path \in DOMAIN Routes : EnterRoute(c, path)
    \/ \E p \in DOMAIN pending : Locked(p, "Response")
    \/ TickRoutes

SpecRoutes == InitRoutes /\ [][NextRoutes]_vars

-----------------------------------------------------------------------------
(* mock_api_server: check_rate_limit, called by apply_rate_limiting before   *)
(* every request, on the request threads of the development server. It      *)
(* takes no lock: a thread may be preempted between any two of its steps.   *)
(* mock.storage is rate_limit_storage[ip_address] for one address, and       *)
(* mock.log the calls that have returned.                                   *)

MockThreads == 1..MaxMockThreads

MockInstants ==
    {0, 1, Sec(minute_window) - 1, Sec(minute_window), Sec(minute_window) + 1}

InitMock ==
    /\ now = 0
    /\ clients = <<>>
    /\ tier_limits = TierTable(RateLimitRule(100, 10, 500, 10, "default"))
    /\ endpoint_limits = EndpointTable(SourceConstitutionalRule)
    /\ pending = EmptyBag
    /\ last = NoCall
    /\ obs = [c \in ClientIds |-> NoObs]
    /\ resolved = NoResolved
    /\ sweeps = {}
    /\ monitored = NoMonitored
    /\ served = <<>>
    /\ identified = NoIdentified
    /\ \E limit_per_minute \in 1..MaxMockLimit :
          mock = [storage |-> <<>>, threads |-> {}, log |-> <<>>,
                  limit_per_minute |-> limit_per_minute]

MockUnchanged ==
    UNCHANGED <<now, clients, tier_limits, endpoint_limits, pending, last, obs, resolved,
                sweeps, identified, monitored, served>>

\* Lines 23-24: current_time = time.time(); minute_ago = current_time - 60.
MockEnter(i) ==
    /\ \A t \in mock.threads : t.id # i
    /\ Len(mock.log) + Cardinality(mock.threads) < MaxMockCalls
    /\ mock' = [mock EXCEPT !.threads = @ \cup
                   {[id |-> i, pc |-> "filter", current_time |-> now, kept |-> <<>>]}]
    /\ MockUnchanged

\* Lines 27-30, right-hand side: the list comprehension over the stored list.
MockFilter(t) ==
    /\ t \in mock.threads /\ t.pc = "filter"
    /\ LET minute_ago == t.current_time - Sec(60)
           kept == SelectSeq(mock.storage, LAMBDA req_time : req_time > minute_ago)
       IN  mock' = [mock EXCEPT !.threads =
                       (@ \ {t}) \cup {[t EXCEPT !.pc = "assign", !.kept = kept]}]
    /\ MockUnchanged

\* Lines 27-30, the assignment to rate_limit_storage[ip_address].
MockAssign(t) ==
    /\ t \in mock.threads /\ t.pc = "assign"
    /\ mock' = [mock EXCEPT !.storage = t.kept,
                            !.threads = (@ \ {t}) \cup {[t EXCEPT !.pc = "check"]}]
    /\ MockUnchanged

\* Lines 33-34: the limit check, and `return False`.
MockCheck(t) ==
    /\ t \in mock.threads /\ t.pc = "check"
    /\ IF Len(mock.storage) >= mock.limit_per_minute
       THEN mock' = [mock EXCEPT !.threads = @ \ {t},
                                 !.log = Append(@, [current_time |-> t.current_time,
                                                    allowed |-> FALSE])]
       ELSE mock' = [mock EXCEPT !.threads = (@ \ {t}) \cup {[t EXCEPT !.pc = "append"]}]
    /\ MockUnchanged

\* Lines 37-38: the append, and `return True`.
MockAppend(t) ==
    /\ t \in mock.threads /\ t.pc = "append"
    /\ mock' = [mock EXCEPT !.storage = Append(@, t.current_time),
                            !.threads = @ \ {t},
                            !.log = Append(@, [current_time |-> t.current_time,
                                               allowed |-> TRUE])]
    /\ MockUnchanged

TickMock ==
    /\ \E t \in MockInstants : t > now /\ now' = t
    /\ UNCHANGED <<clients, tier_limits, endpoint_limits, pending, last, obs, resolved,
                   sweeps, identified, monitored, served, mock>>

NextMock ==
    \/ \E i \in MockThreads : MockEnter(i)
    \/ \E t \in mock.threads : MockFilter(t)
    \/ \E t \in mock.threads : MockAssign(t)
    \/ \E t \in mock.threads : MockCheck(t)
    \/ \E t \in mock.threads : MockAppend(t)
    \/ TickMock

SpecMock == InitMock /\ [][NextMock]_vars

-----------------------------------------------------------------------------
(* Claims *)

\* The policy every call of client c is checked under in Spec and SpecConc.
PolicyOf(c) == get_applicable_limits(detect_client_tier(c), TestEndpoint)

\* An optional limit that is absent or not below L.
NotBelow(opt, L) == ~Truthy(opt) \/ opt >= L

Completed(c) == obs[c].admitted + obs[c].rejected

\* C1: race-freedom. For concurrent calls of one client under one policy with
\* hourly limit L and no minute or day limit below L, all within one hour
\* window, the callers have seen exactly min(L, calls completed) admissions at
\* every moment: never more than L, and L admitted and N - L rejected once
\* N > L calls have returned.
C1_RaceFreedom ==
    \A c \in ClientIds :
        LET lim == PolicyOf(c)
            L == lim.requests_per_hour
        IN  (/\ obs[c].one_hour
             /\ NotBelow(lim.requests_per_minute, L)
             /\ NotBelow(lim.requests_per_day, L))
            => /\ obs[c].admitted <= L
               /\ obs[c].admitted = Min(L, Completed(c))
               /\ obs[c].rejected = Completed(c) - Min(L, Completed(c))

\* C1 witness: L admitted and one rejected within the hour, while a call that
\* read the clock before the last completed one is still waiting for the lock.
C1_Witness ==
    \E c \in ClientIds :
        LET lim == PolicyOf(c)
            L == lim.requests_per_hour
        IN  /\ obs[c].one_hour
            /\ NotBelow(lim.requests_per_minute, L)
            /\ NotBelow(lim.requests_per_day, L)
            /\ L >= 2
            /\ obs[c].admitted = L
            /\ obs[c].rejected >= 1
            /\ \E p \in DOMAIN pending :
                  p.client_id = c /\ p.current_time < last.current_time

\* C2: monotonic admission. For a fresh client with hourly limit L and no
\* minute or day limit below L, the k-th call within the first hour window is
\* admitted with remaining L - k for k <= L, and the (L+1)-th is rejected with
\* a retry_after that is present and positive.
C2_MonotonicAdmission ==
    \A c \in ClientIds :
        (last.client_id = c) =>
            LET lim == last.limits
                L == lim.requests_per_hour
                k == Completed(c)
            IN  (/\ obs[c].one_hour
                 /\ NotBelow(lim.requests_per_minute, L)
                 /\ NotBelow(lim.requests_per_day, L))
                => /\ (k <= L => last.is_allowed /\ last.rate_info.remaining = L - k)
                   /\ (k = L + 1 => /\ ~last.is_allowed
                                     /\ last.rate_info.retry_after # None
                                     /\ last.rate_info.retry_after > 0)

\* C2 witness: the (L+1)-th call of the first hour has just been rejected, for
\* a limit of at least 2, less than a second before the hour ends.
C2_Witness ==
    \E c \in ClientIds :
        /\ last.client_id = c
        /\ obs[c].one_hour
        /\ last.limits.requests_per_hour >= 2
        /\ NotBelow(last.limits.requests_per_minute, last.limits.requests_per_hour)
        /\ NotBelow(last.limits.requests_per_day, last.limits.requests_per_hour)
        /\ Completed(c) = last.limits.requests_per_hour + 1
        /\ ~last.is_allowed
        /\ last.current_time = Sec(hour_window) - 1
        /\ last.rate_info.retry_after = 1

\* C3: minute window independence. With requests_per_minute = M configured,
\* the admissions within one minute window (started at the first call,
\* restarted by the first call 60 s or more later) never exceed M.
C3_MinuteWindow ==
    \A c \in ClientIds :
        Truthy(PolicyOf(c).requests_per_minute)
            => obs[c].minute_count <= PolicyOf(c).requests_per_minute

\* C4: daily window independence. With requests_per_day = D configured, the
\* admissions within one day window never exceed D, whatever the hour window
\* has done in between.
C4_DayWindow ==
    \A c \in ClientIds :
        Truthy(PolicyOf(c).requests_per_day)
            => obs[c].day_count <= PolicyOf(c).requests_per_day

\* C5: fixed-window reset rule. On a call for an existing record the hour
\* window is reset (count to 0 before the admission, window_start to the
\* call's time) if and only if now - window_start >= 3600.
C5_ResetRule ==
    [][\A p \in DOMAIN pending : \A kind \in ReturnKinds :
          (Locked(p, kind) /\ p.client_id \in DOMAIN clients) =>
              LET u == clients[p.client_id]
                  v == clients'[p.client_id]
                  t == p.current_time
                  inc == IF last'.is_allowed THEN 1 ELSE 0
              IN  IF t - u.window_start >= Sec(hour_window)
                  THEN v.window_start = t /\ v.requests_count = inc
                  ELSE v.window_start = u.window_start
                       /\ v.requests_count = u.requests_count + inc
      ]_vars

\* C6: window reset unblocks. A client whose last call was rejected with the
\* hour (or minute) window at its limit is admitted by its first call made
\* once that window's duration has elapsed since the window's start, the day
\* window (and, for the minute case, the hour window) having room.
C6_ResetUnblocks ==
    [][\A p \in DOMAIN pending : \A kind \in ReturnKinds :
          (/\ Locked(p, kind)
           /\ p.client_id \in DOMAIN clients
           /\ last.client_id = p.client_id
           /\ ~last.is_allowed) =>
              LET c == p.client_id
                  u == clients[c]
                  lim == p.limits
                  t == p.current_time
                  day_ok == ~Truthy(lim.requests_per_day)
                            \/ obs[c].day_count < lim.requests_per_day
                  hour_elapsed == /\ u.requests_count >= lim.requests_per_hour
                                  /\ t - u.window_start >= Sec(hour_window)
                  minute_elapsed == /\ Truthy(lim.requests_per_minute)
                                    /\ obs[c].minute_count >= lim.requests_per_minute
                                    /\ u.requests_count < lim.requests_per_hour
                                    /\ t - obs[c].minute_start >= Sec(minute_window)
              IN  /\ (hour_elapsed /\ day_ok) =>
                        last'.is_allowed /\ clients'[c].requests_count = 1
                  /\ (minute_elapsed /\ day_ok) => last'.is_allowed
      ]_vars

\* C7: every returned Decision has retry_after present if and only if
\* allowed is false.
C7_RetryAfterIffRejected ==
    (last.client_id # "") =>
        ((last.rate_info.retry_after # None) <=> ~last.is_allowed)

\* ceil(x) of a float x given in ticks, in seconds.
Ceil(x) ==
    IF x >= 0 THEN (x + TicksPerSecond - 1) \div TicksPerSecond
    ELSE 0 - ((0 - x) \div TicksPerSecond)

\* C8: a rejection reports, for the first window found at its limit in the
\* order minute, hour, day, retry_after = ceil(duration - (now - window_start)).
C8_RetryAfterOfFirstWindow ==
    \A c \in ClientIds :
        (last.client_id = c /\ ~last.is_allowed /\ c \in DOMAIN clients) =>
            LET lim == last.limits
                u == clients[c]
                t == last.current_time
                minute_hit == /\ Truthy(lim.requests_per_minute)
                              /\ obs[c].minute_count >= lim.requests_per_minute
                hour_hit == u.requests_count >= lim.requests_per_hour
                expected ==
                    IF minute_hit
                    THEN Ceil(Sec(minute_window) - (t - obs[c].minute_start))
                    ELSE IF hour_hit
                    THEN Ceil(Sec(hour_window) - (t - u.window_start))
                    ELSE Ceil(Sec(day_window) - (t - obs[c].day_start))
            IN  last.rate_info.retry_after = expected

\* The field-wise minimum of two optional limits: absent on both sides is no
\* limit, absent on one side is the other side's value.
IsOptionalMin(res, a, b) ==
    IF a = None /\ b = None THEN res = None \/ res = Inf
    ELSE IF a = None THEN res = b
    ELSE IF b = None THEN res = a
    ELSE res = Min(a, b)

\* C9: get_applicable_limits returns the field-wise minimum of the tier's
\* rule and the route's override; its requests_per_hour never exceeds the
\* tier's; without an override it is the tier's rule.
C9_EffectivePolicy ==
    (resolved.endpoint # "") =>
        LET t == tier_limits[resolved.client_tier]
            r == resolved.limits
        IN  /\ r.requests_per_hour <= t.requests_per_hour
            /\ IF resolved.endpoint \in DOMAIN endpoint_limits
               THEN LET e == endpoint_limits[resolved.endpoint]
                    IN  /\ r.requests_per_hour
                              = Min(t.requests_per_hour, e.requests_per_hour)
                        /\ IsOptionalMin(r.requests_per_minute,
                                         t.requests_per_minute, e.requests_per_minute)
                        /\ IsOptionalMin(r.requests_per_day,
                                         t.requests_per_day, e.requests_per_day)
                        /\ r.burst_allowance
                              = Min(t.burst_allowance, e.burst_allowance)
               ELSE r = t

\* C9 witness: a route with an override looser per hour than the tier, whose
\* minute limit is absent in the tier and whose day limit is absent in both.
C9_Witness ==
    /\ resolved.endpoint = ConstitutionalPath
    /\ resolved.client_tier = "default"
    /\ tier_limits["default"].requests_per_hour
          < endpoint_limits[ConstitutionalPath].requests_per_hour
    /\ tier_limits["default"].requests_per_minute = None
    /\ endpoint_limits[ConstitutionalPath].requests_per_minute = 2
    /\ resolved.limits.requests_per_minute = 2
    /\ tier_limits["default"].requests_per_day = None
    /\ endpoint_limits[ConstitutionalPath].requests_per_day = None
    /\ resolved.limits.requests_per_day = Inf

\* C10: every response produced through the decorator carries the five
\* X-RateLimit headers.
C10_FiveHeadersAlways ==
    (last.client_id # "") => RateLimitHeaders \subseteq DOMAIN last.response.headers

\* C11: no response to an admitted request carries Retry-After, the admitted
\* request that takes the last slot of the hour window included.
C11_RetryAfterOnlyOnRejected ==
    (last.client_id # "" /\ last.is_allowed) =>
        "Retry-After" \notin DOMAIN last.response.headers

\* C11 witness: an admitted request has taken the last slot of the hour, its
\* rate_limit_info holds a retry_after, and its Response carries the five
\* X-RateLimit headers.
C11_Witness ==
    /\ last.client_id # ""
    /\ last.is_allowed
    /\ last.rate_info.remaining = 0
    /\ Truthy(last.rate_info.retry_after)
    /\ DOMAIN last.response.headers = RateLimitHeaders

\* C12: every 429 response carries a Retry-After header whose value is a
\* positive whole number of seconds, whichever window's limit rejected.
C12_RetryAfterOnEvery429 ==
    (last.client_id # "" /\ last.response.status_code = 429) =>
        /\ "Retry-After" \in DOMAIN last.response.headers
        /\ \E n \in 1..hour_window : last.response.headers["Retry-After"] = Str(n)

\* C13: a rejected request is answered with HTTP 429 and the body
\* {error: {code: RATE_LIMIT_EXCEEDED, message, details: {limit, window,
\* retry_after}}} without the wrapped handler being invoked; an admitted
\* request invokes the wrapped handler exactly once.
C13_RejectionIsAResponse ==
    (last.client_id # "") =>
        IF last.is_allowed
        THEN /\ last.response.handler_calls = 1
             /\ last.response.status_code # 429
        ELSE /\ last.response.handler_calls = 0
             /\ last.response.status_code = 429
             /\ DOMAIN last.response.error = {"code", "message", "details"}
             /\ last.response.error.code = "RATE_LIMIT_EXCEEDED"
             /\ DOMAIN last.response.error.details = {"limit", "window", "retry_after"}
             /\ last.response.error.details.limit = last.limits.requests_per_hour
             /\ last.response.error.details.window = hour_window
             /\ last.response.error.details.retry_after = last.rate_info.retry_after

\* C13 witness: a client that has been admitted has just been rejected by the
\* minute check, so the body's retry_after is null.
C13_Witness ==
    /\ last.client_id # ""
    /\ ~last.is_allowed
    /\ obs[last.client_id].admitted >= 1
    /\ last.response.status_code = 429
    /\ last.response.handler_calls = 0
    /\ last.response.error.details.retry_after = None

\* int(s) of a decimal text s.
ParseInt(s) == s[2]

\* C18: the header values of every response are well-formed: X-RateLimit-Limit
\* > 0, X-RateLimit-Remaining >= 0, X-RateLimit-Window > 0, and
\* X-RateLimit-Reset strictly later than the time the request was checked at.
C18_HeaderValuesWellFormed ==
    (last.client_id # "" /\ RateLimitHeaders \subseteq DOMAIN last.response.headers) =>
        LET h == last.response.headers
        IN  /\ ParseInt(h["X-RateLimit-Limit"]) > 0
            /\ ParseInt(h["X-RateLimit-Remaining"]) >= 0
            /\ ParseInt(h["X-RateLimit-Window"]) > 0
            /\ Sec(ParseInt(h["X-RateLimit-Reset"])) > last.current_time

\* The count the code holds for a window at time t: the record's one counter
\* for the hour, _count_requests_in_window for the minute and the day.
CountOf(w, usage, t) ==
    CASE w = "hour" -> usage.requests_count
      [] w = "minute" -> _count_requests_in_window(usage, minute_window, t)
      [] w = "day" -> _count_requests_in_window(usage, day_window, t)

ConfiguredWindows(limits) ==
    {"hour"} \cup (IF Truthy(limits.requests_per_minute) THEN {"minute"} ELSE {})
             \cup (IF Truthy(limits.requests_per_day) THEN {"day"} ELSE {})

\* C19: an admitted call increments every configured window's count by
\* exactly 1 (from its value after the resets of the call), increments
\* total_requests by exactly 1, sets last_request_time to the call's now, and
\* returns remaining = requests_per_hour - count[hour] after the increment and
\* reset_epoch = window_start[hour] + 3600.
C19_AdmittedEffect ==
    [][\A p \in DOMAIN pending : \A kind \in ReturnKinds :
          (Locked(p, kind) /\ last'.is_allowed) =>
              LET c == p.client_id
                  t == p.current_time
                  created == IF c \in DOMAIN clients THEN clients[c] ELSE ClientUsage(now)
                  u == CleanUpOldWindow(created, t)
                  v == clients'[c]
              IN  /\ \A w \in ConfiguredWindows(p.limits) :
                        CountOf(w, v, t) = CountOf(w, u, t) + 1
                  /\ v.total_requests = created.total_requests + 1
                  /\ v.last_request_time = t
                  /\ last'.rate_info.remaining
                        = p.limits.requests_per_hour - v.requests_count
                  /\ Sec(last'.rate_info.reset) = v.window_start + Sec(hour_window)
      ]_vars

\* The identifications made in the current state: request, identifier, tier.
Identifications ==
    {<<identified.r1, identified.id1, identified.tier1>>,
     <<identified.r2, identified.id2, identified.tier2>>}

\* C15: tier classification. An api: identity is Admin if it is an admin key,
\* otherwise Premium if it is a premium key, otherwise Authenticated, and
\* never Default; an anon: identity is Default.
C15_TierClassification ==
    (identified.stage = "classified") =>
        \A i \in Identifications :
            LET client_id == i[2]
                tier == i[3]
            IN  /\ StartsWith(client_id, "api:") =>
                      /\ tier = (IF _is_admin_key(client_id) THEN "admin"
                                 ELSE IF _is_premium_key(client_id) THEN "premium"
                                 ELSE "authenticated")
                      /\ tier # "default"
                /\ StartsWith(client_id, "anon:") => tier = "default"

\* C15 witness: a request with a Bearer token and a request with neither
\* credential have been classified Authenticated and Default.
C15_Witness ==
    /\ identified.stage = "classified"
    /\ ~identified.direct
    /\ StartsWith(identified.id1, "api:")
    /\ identified.tier1 = "authenticated"
    /\ StartsWith(identified.id2, "anon:")
    /\ identified.tier2 = "default"

IsBearer(req) ==
    /\ "Authorization" \in DOMAIN req.headers
    /\ StartsWith(req.headers["Authorization"], "Bearer ")

BearerToken(req) ==
    SubSeq(req.headers["Authorization"], 8, Len(req.headers["Authorization"]))

HasUsableApiKey(req) ==
    "X-API-Key" \in DOMAIN req.headers /\ req.headers["X-API-Key"] # ""

\* The credential a request is identified by: its Bearer token, else its
\* X-API-Key, else none.
Credential(req) ==
    IF IsBearer(req) THEN {BearerToken(req)}
    ELSE IF HasUsableApiKey(req) THEN {req.headers["X-API-Key"]}
    ELSE {}

\* C16: identification is deterministic and credential-first. Identical
\* requests get the same identity; requests with the same credential get the
\* same api: identity whatever their IP and User-Agent; a Bearer token decides
\* the identity whatever the X-API-Key; an anon: identity is given only to a
\* request with neither credential.
C16_CredentialFirst ==
    (identified.stage = "identified" /\ ~identified.direct) =>
        /\ (identified.r1 = identified.r2) => identified.id1 = identified.id2
        /\ (Credential(identified.r1) # {}
               /\ Credential(identified.r1) = Credential(identified.r2))
              => /\ identified.id1 = identified.id2
                 /\ StartsWith(identified.id1, "api:")
        /\ \A i \in Identifications :
              /\ IsBearer(i[1]) => i[2] = "api:" \o Sha256Hex16(BearerToken(i[1]))
              /\ StartsWith(i[2], "anon:") => Credential(i[1]) = {}

\* C16 witness: one request with a Bearer token, another X-API-Key and a
\* forwarded address, and one with the same token in X-API-Key, no address
\* and no User-Agent, have the same api: identity.
C16_Witness ==
    /\ identified.stage = "identified"
    /\ ~identified.direct
    /\ IsBearer(identified.r1)
    /\ BearerToken(identified.r1) = "k1"
    /\ HasUsableApiKey(identified.r1)
    /\ identified.r1.headers["X-API-Key"] = "k2"
    /\ "HTTP_X_FORWARDED_FOR" \in DOMAIN identified.r1.environ
    /\ ~IsBearer(identified.r2)
    /\ Credential(identified.r2) = {"k1"}
    /\ identified.r2.environ = <<>>
    /\ "User-Agent" \notin DOMAIN identified.r2.headers
    /\ identified.id1 = identified.id2
    /\ identified.id1 = "api:6ab9f1eb8f7d3388"

\* C17: a request whose Authorization header is missing, is not a Bearer
\* header or carries an empty Bearer token, and which has no usable X-API-Key,
\* gets an anon: identity and the Default tier.
C17_AnonymousFallback ==
    (identified.stage = "classified" /\ ~identified.direct) =>
        \A i \in Identifications :
            ((~IsBearer(i[1]) \/ BearerToken(i[1]) = "") /\ ~HasUsableApiKey(i[1]))
                => StartsWith(i[2], "anon:") /\ i[3] = "default"

\* C14: reaper correctness. When cleanup_old_clients(max_age) completes, no
\* record idle for more than max_age at the sweep's clock reading remains, and
\* every record idle for max_age or less is still there, unchanged; the sweep
\* adds no record.
C14_ReaperCorrectness ==
    [][\A s \in sweeps :
          SweepLocked(s) =>
              /\ DOMAIN clients' \subseteq DOMAIN clients
              /\ \A c \in DOMAIN clients :
                    IF s.current_time - clients[c].last_request_time > Sec(s.max_age)
                    THEN c \notin DOMAIN clients'
                    ELSE c \in DOMAIN clients' /\ clients'[c] = clients[c]
      ]_vars

\* C14 witness: a sweep with a threshold of one hour, made one hour and half
\* a second after the first client's only request, has removed that client's
\* record and has kept the record of the second client, idle for exactly one
\* hour, with its counters.
C14_Witness ==
    /\ now = Sec(hour_window) + 1
    /\ sweeps = {}
    /\ obs["anon:c1"].admitted >= 1
    /\ obs["anon:c1"].first = 0
    /\ "anon:c1" \notin DOMAIN clients
    /\ "anon:c2" \in DOMAIN clients
    /\ clients["anon:c2"].first_request_time = 1
    /\ clients["anon:c2"].last_request_time = 1
    /\ clients["anon:c2"].total_requests = 1

\* C20: frame of a rejected call. It adds exactly 1 to the client's
\* violations and leaves that record's count, window_start, first and last
\* request times and total_requests, and every other client's record, as
\* they were.
C20_RejectedFrame ==
    [][\A p \in DOMAIN pending : \A kind \in ReturnKinds :
          (Locked(p, kind) /\ ~last'.is_allowed) =>
              /\ p.client_id \in DOMAIN clients
              /\ clients' = [clients EXCEPT
                                ![p.client_id].violations = @ + 1]
      ]_vars

\* C20 witness: the first client has been rejected by the minute check while
\* the second client has a record with an admitted request.
C20_Witness ==
    /\ last.client_id = "anon:c1"
    /\ ~last.is_allowed
    /\ last.rate_info.retry_after = None
    /\ clients["anon:c1"].violations = 1
    /\ clients["anon:c1"].requests_count = 1
    /\ "anon:c2" \in DOMAIN clients
    /\ clients["anon:c2"].total_requests = 1

\* C21: in every state every record's window count, total_requests and
\* violations are non-negative, and no step lowers the total_requests or the
\* violations of a record that exists before and after it.
C21_CountersMonotonic ==
    [][/\ \A c \in DOMAIN clients' :
              /\ clients'[c].requests_count >= 0
              /\ clients'[c].total_requests >= 0
              /\ clients'[c].violations >= 0
       /\ \A c \in DOMAIN clients \cap DOMAIN clients' :
              /\ clients'[c].total_requests >= clients[c].total_requests
              /\ clients'[c].violations >= clients[c].violations
      ]_vars

\* C21 witness: a record whose hour window has been reset after two
\* admissions and a rejection: the window count is back to 1, the lifetime
\* counters are not.
C21_Witness ==
    \E c \in DOMAIN clients :
        /\ clients[c].window_start > 0
        /\ clients[c].requests_count = 1
        /\ clients[c].total_requests = 3
        /\ clients[c].violations = 1

\* C22: get_stats returns a consistent snapshot: at the instant it holds the
\* lock, total_clients is the number of records, total_requests and
\* total_violations are the sums over the records, active_clients is the
\* number of records last admitted less than 300 s ago, and active_clients
\* <= total_clients.
C22_StatsSnapshot ==
    [][GetStats =>
          LET data == monitored'.data
              active == {c \in DOMAIN clients :
                            /\ now - clients[c].last_request_time >= 0
                            /\ now - clients[c].last_request_time < Sec(300)}
          IN  /\ data.total_clients = Cardinality(DOMAIN clients)
              /\ data.total_requests
                    = Sum([c \in DOMAIN clients |-> clients[c].total_requests], DOMAIN clients)
              /\ data.total_violations
                    = Sum([c \in DOMAIN clients |-> clients[c].violations], DOMAIN clients)
              /\ data.active_clients = Cardinality(active)
              /\ data.active_clients <= data.total_clients
      ]_vars

\* C22 witness: get_stats has reported two records, one of them last admitted
\* 300 s or more ago, with more requests in all than the window counts hold.
C22_Witness ==
    /\ monitored.handler = "get_stats"
    /\ monitored.data.total_clients = 2
    /\ monitored.data.active_clients = 1
    /\ monitored.data.total_requests = 3
    /\ DOMAIN clients = StoreClientIds
    /\ Sum([c \in DOMAIN clients |-> clients[c].requests_count], DOMAIN clients) = 2

\* C23: record lifecycle. A record appears only in a step of is_within_limits
\* for that client, disappears only in a step of cleanup_old_clients, and a
\* step of get_stats or of the my-usage body leaves the store as it was.
C23_RecordLifecycle ==
    [][/\ \A c \in DOMAIN clients' \ DOMAIN clients :
              \E p \in DOMAIN pending : p.client_id = c /\ MonitorLocked(p)
       /\ \A c \in DOMAIN clients \ DOMAIN clients' :
              \E s \in sweeps : SweepLocked(s)
       /\ (GetStats \/ \E c \in StoreClientIds : GetMyUsage(c)) => clients' = clients
      ]_vars

\* C23 witness: the my-usage body has run for a client whose record the
\* reaper removed after the decorator admitted the request: it has reported
\* zeros and the client still has no record.
C23_Witness ==
    /\ monitored.handler = MyUsageEndpoint
    /\ monitored.client_id \notin DOMAIN clients
    /\ obs[monitored.client_id].admitted >= 1
    /\ monitored.data.requests_made = 0
    /\ monitored.data.total_requests = 0
    /\ monitored.data.violations = 0

\* The client has made all its calls and none is in flight.
Stopped(c) ==
    /\ obs[c].admitted + obs[c].rejected = (IF c = "anon:c1" THEN MaxStoreCalls ELSE 1)
    /\ \A p \in DOMAIN pending : p.client_id # c

\* C24: the reaper runs periodically on its own: the record of a client that
\* has stopped making requests and has been idle for longer than the default
\* threshold of a day is eventually evicted.
C24_IdleEventuallyEvicted ==
    \A c \in StoreClientIds :
        (/\ c \in DOMAIN clients
         /\ Stopped(c)
         /\ now - clients[c].last_request_time > Sec(day_window))
        ~> (c \notin DOMAIN clients)

\* The burst allowances a second run's policies carry instead.
BurstValues == {0, 20, 100}

\* C25: burst_allowance never influences admission: at every call, the same
\* call under a policy that differs only in burst_allowance has the same
\* outcome, the same remaining and leaves the same record, so two runs that
\* differ only in burst_allowance agree at every step.
C25_BurstNeverInfluences ==
    [][\A p \in DOMAIN pending :
          (\E kind \in ReturnKinds : Locked(p, kind)) =>
             \A b \in BurstValues :
                LET other == [p.limits EXCEPT !.burst_allowance = b]
                    r == is_within_limits(clients, p.client_id, other, p.current_time, now)
                IN  /\ r.is_allowed = last'.is_allowed
                    /\ r.rate_info.remaining = last'.rate_info.remaining
                    /\ r.usage = clients'[p.client_id]]_vars

\* A call is rejected with the window count exactly at the hourly limit, under
\* a policy whose burst allowance is positive.
C25_Witness ==
    /\ last.client_id # ""
    /\ ~last.is_allowed
    /\ last.limits.burst_allowance > 0
    /\ clients[last.client_id].requests_count = last.limits.requests_per_hour

\* C26: endpoint overrides are enforced on the request path: for a request on
\* the constitutional route, the route identifier selects the entry of
\* endpoint_limits, the Decision's limit is min(tier hourly, override hourly),
\* and within one hour the client is admitted on that route at most that often.
C26_EndpointOverrideEnforced ==
    LET e == route_identifier(ConstitutionalPath)
    IN  (last.client_id # "" /\ last.endpoint = e) =>
           LET limit == Min(tier_limits[last.client_tier].requests_per_hour,
                            endpoint_limits[ConstitutionalPath].requests_per_hour)
           IN  /\ e \in DOMAIN endpoint_limits
               /\ last.rate_info.limit = limit
               /\ obs[last.client_id].one_hour =>
                     ServedOf(served, last.client_id, e).admitted <= limit

\* C27: different endpoints do not interfere: within one hour, a request on a
\* route is admitted while the client's admitted requests on that route are
\* fewer than the limit applied to it, whatever the client did on other routes.
C27_EndpointsDoNotInterfere ==
    [][\A p \in DOMAIN pending :
          Locked(p, "Response") =>
             ((/\ obs'[p.client_id].one_hour
               /\ ServedOf(served, p.client_id, p.endpoint).admitted
                     < p.limits.requests_per_hour)
              => last'.is_allowed)]_vars

\* C28: for one client, last_request_time never decreases across admitted
\* calls and is never earlier than a window_start set by a previous reset
\* (a window_start later than first_request_time), under any interleaving.
C28_LastRequestTimeMonotonic ==
    [][\A p \in DOMAIN pending :
          (/\ Locked(p, "Response")
           /\ last'.is_allowed
           /\ p.client_id \in DOMAIN clients) =>
             LET before == clients[p.client_id]
                 after == clients'[p.client_id]
             IN  /\ after.last_request_time >= before.last_request_time
                 /\ before.window_start > before.first_request_time =>
                       after.last_request_time >= before.window_start]_vars

\* Every record the sweep deletes has an hour window that has expired.
EvictedWindowsExpired ==
    \A s \in sweeps :
        (SweepLocked(s) /\ s.max_age >= hour_window) =>
           \A c \in DOMAIN clients \ DOMAIN clients' :
              now - clients[c].window_start >= Sec(hour_window)

\* A client whose calls all fall within one hour has been admitted at most
\* its hourly limit.
AdmittedWithinHourlyLimit ==
    \A c \in StoreClientIds :
        obs[c].one_hour =>
           obs[c].admitted <= tier_limits[detect_client_tier(c)].requests_per_hour

\* C29: eviction never resets live quota: with an idle threshold of an hour
\* or more, every record cleanup_old_clients deletes has an expired hour
\* window, and no client is admitted more than its hourly limit within one
\* hour, under any interleaving of sweeps and calls.
C29_EvictionKeepsLiveQuota ==
    [][EvictedWindowsExpired /\ AdmittedWithinHourlyLimit']_vars

\* The calls that returned True with a timestamp in the 60 seconds up to t.
TrueWithinMinute(t) ==
    {j \in DOMAIN mock.log :
        /\ mock.log[j].allowed
        /\ mock.log[j].current_time <= t
        /\ mock.log[j].current_time > t - Sec(60)}

\* Among the calls that returned True, at most limit_per_minute have
\* timestamps within any 60 seconds.
MockWindowBound ==
    \A i \in DOMAIN mock.log :
        mock.log[i].allowed =>
           Cardinality(TrueWithinMinute(mock.log[i].current_time))
              <= mock.limit_per_minute

\* C30: mock server sliding-window limit: among the calls of one address that
\* returned True, at most limit_per_minute have timestamps within any 60
\* seconds, and a call that returns False records no timestamp, whatever the
\* interleaving of the request threads.
C30_MockSlidingWindow ==
    [][/\ MockWindowBound'
       /\ \A t \in mock.threads :
             (MockCheck(t) /\ Len(mock'.log) > Len(mock.log)) =>
                mock'.storage = mock.storage]_vars

====
